---- MODULE Spec2Model ----
(***************************************************************************)
(* A model of the whatsapp-archive file index (src/src/file_index.rs), its *)
(* file metadata records (src/src/file_info.rs) and its retention queries  *)
(* (src/src/filter.rs).                                                    *)
(*                                                                         *)
(* Spec       : one destination FileIndex mutated by import_file,          *)
(*              import_file_with_metadata and remove_file on one relative  *)
(*              path.  An import is modelled step by step (create_dir_all, *)
(*              copy to the temporary file, sync_data, rename,             *)
(*              set_modification_time, re-read and compare), and every     *)
(*              step that performs I/O may fail.                           *)
(* MirrorSpec : mirror_specified and mirror_all from a source FileIndex    *)
(*              into the destination, over two relative paths, running the *)
(*              same import steps.                                         *)
(* QuerySpec  : get_delete_retain_candidates applied to indices and        *)
(*              queries drawn from bounded sets.                           *)
(* ConstructSpec : FileIndex::new for an Original or an Archive, Real or    *)
(*              Dry, over a root directory in any state.                   *)
(* RotateSpec : clean_old_dbs over trees of current backups and dated      *)
(*              snapshots under Databases.                                 *)
(* DrySpec    : a Dry index from its construction on, under imports,       *)
(*              removals, mirrors and clean_old_dbs.                       *)
(* BackupSpec : clean_old_backups over trees of settings backups.          *)
(* CrashSpec  : Real imports that may be terminated at any step, followed  *)
(*              by a construction of the index over what is left.          *)
(* PathSpec   : the calls of Spec with relative_path arguments that are    *)
(*              absolute or climb out of the root.                         *)
(* ScanSpec   : FileIndex::new over trees that hold entries named like    *)
(*              the marker and symbolic links.                             *)
(* PipelineSpec : one run of main_internal (src/src/bin/waa.rs) in backup,  *)
(*              trim or sync mode over a WhatsApp folder and an archive.   *)
(*                                                                         *)
(* Paths are sequences of components.  Times are ticks counted from        *)
(* 2023-06-15T00:00:00; in QuerySpec one tick is one half-life of the      *)
(* SmallerNewer score (30.4375 days).  File content is identified by a     *)
(* number d whose length is d bytes; a file holding fewer bytes than its   *)
(* content is partially written.                                           *)
(***************************************************************************)
EXTENDS Integers, Sequences, FiniteSets, TLC

VARIABLES
    index_type,      \* FileIndex._index_type of the destination index
    action_type,     \* FileIndex.action_type of the destination index
    root,            \* the destination root directory: whether it exists,
                     \* holds the marker file, holds an entry that is no
                     \* regular file of the tree (an empty directory)
    entries,         \* FileIndex.entries of the destination index
    disk,            \* regular files under the destination root (marker excluded)
    tmp,             \* the temporary sibling file of safer_copy, if any
    source_entries,  \* entries of the source index
    source_disk,     \* regular files under the source root
    pc,              \* position inside the running call
    call,            \* arguments of the running import, if any
    mirror,          \* loop state of the running mirror_specified, if any
    clean,           \* loop state of the running clean_old_dbs or
                     \* clean_old_backups, if any
    query,           \* the FileQuery given to get_delete_retain_candidates
    candidates,      \* what get_delete_retain_candidates returned, if called
    main             \* position of main_internal in its pipeline, if one runs

vars == <<index_type, action_type, root, entries, disk, tmp, source_entries,
          source_disk, pc, call, mirror, clean, query, candidates, main>>

\* ------------------------------------------------------------------ bounds

MaxData == 2
MaxTime == 1

Data == 1..MaxData
Times == 0..MaxTime

\* ------------------------------------------------------------------- paths

TAG_NAME == ".waa"

DatedName == "IMG-20230615-WA0007.jpg"

Paths == {<<"Media", DatedName>>, <<"Databases", "msgstore.db.crypt14">>}

\* The relative path the direct calls of Spec work on.
ImportPaths == {<<"Databases", "msgstore.db.crypt14">>}

file_name(path) == path[Len(path)]

\* ------------------------------------------------------- files and records

\* A regular file: the content it holds (or is being filled with), the number
\* of bytes present, and its modification time.
Files == [data : Data, len : 0..MaxData, mtime : Times]

IsWhole(f) == f.len = f.data

WholeFiles == {f \in Files : IsWhole(f)}

\* Option<T> is a sequence of at most one element.
None == <<>>
Some(x) == <<x>>

\* The date embedded in a file name, if the name follows the naming convention.
creation_date_from_name(filename) ==
    IF filename = DatedName THEN Some(0) ELSE None

\* FileInfo::new applied to the file f stored under the given path.
FileInfoNew(path, f) ==
    LET named == creation_date_from_name(file_name(path))
    IN  [modification_time |-> f.mtime,
         estimated_creation_date |-> IF named # None THEN named[1] ELSE f.mtime,
         size |-> f.len]

\* HashMap operations on a map represented as a function.
Insert(map, k, v) == (k :> v) @@ map
Remove(map, k) == [x \in DOMAIN map \ {k} |-> map[x]]

\* A directory entry that is neither a file nor a directory: a symbolic link.
Symlink == [data |-> 0, len |-> 0, mtime |-> 0, link |-> TRUE]

\* entry.file_type().is_file()
is_file(f) == DOMAIN f = {"data", "len", "mtime"}

\* The walk `continue`s on every entry whose file name is TAG_NAME, before it
\* looks at the entry's type: a file of that name is passed over in whatever
\* directory it lies, and a directory of that name is never descended into.
passed_over(path) == \E i \in 1..Len(path) : path[i] = TAG_NAME

\* rebuild_index: one record per regular file the walk reaches.
rebuild_index(tree) ==
    [p \in {q \in DOMAIN tree : is_file(tree[q]) /\ ~passed_over(q)}
        |-> FileInfoNew(p, tree[p])]

\* ------------------------------------------------- state of a running call

\* `result` is "" while the call runs and "Ok" or the Error variant once it has
\* returned; `step` names the step that failed.
NoCall == [op |-> "none", rel |-> <<>>, source |-> <<>>, info |-> None,
           prior |-> None, result |-> "", step |-> ""]

\* The file stored under path p of a tree, as an Option.
FileAt(tree, p) == IF p \in DOMAIN tree THEN Some(tree[p]) ELSE None

\* The records a caller may pass as `info` for relative_path: any modification
\* time and size, with the creation date the path's name gives.
InfoChoices(rel) ==
    {FileInfoNew(rel, f) : f \in WholeFiles}

\* The types of the variables in Spec and MirrorSpec.
TypeOK ==
    /\ index_type \in {"Original", "Archive"}
    /\ action_type \in {"Real", "Dry"}
    /\ root \in [exists : BOOLEAN, marker : BOOLEAN, stray : BOOLEAN]
    /\ DOMAIN entries \subseteq Paths
    /\ DOMAIN disk \subseteq Paths
    /\ \A p \in DOMAIN disk : disk[p] \in Files
    /\ Len(tmp) <= 1
    /\ pc \in {"idle", "do_copy", "copy", "copying", "sync_data", "rename",
               "copy_failed", "copied", "verify", "failed", "mirror", "returned",
               "remove", "remove_entry", "start", "clean"}

\* ------------------------------------------------------------------- Init

\* The trees of regular files over the paths P.
Trees(P) == UNION {[S -> WholeFiles] : S \in SUBSET P}

\* The root of an archive that FileIndex::new has opened.
ArchiveRoot == [exists |-> TRUE, marker |-> TRUE, stray |-> FALSE]

\* The destination index as FileIndex::new leaves it: built from the tree.
InitIndex ==
    /\ index_type = "Archive"
    /\ action_type \in {"Real", "Dry"}
    /\ root = ArchiveRoot
    /\ clean = None
    /\ entries = rebuild_index(disk)
    /\ source_entries = rebuild_index(source_disk)
    /\ tmp = None
    /\ pc = "idle"
    /\ call = NoCall
    /\ mirror = None
    /\ query = None
    /\ candidates = None
    /\ main = None

Init ==
    /\ source_disk \in Trees(ImportPaths)
    /\ disk \in Trees(ImportPaths)
    /\ InitIndex

\* The source tree of MirrorSpec holds the same file under each of its paths.
MirrorInit ==
    /\ \E S \in SUBSET Paths, f \in WholeFiles : source_disk = [p \in S |-> f]
    /\ disk \in Trees(Paths)
    /\ InitIndex

\* What no call on the index touches.
CallFrame ==
    UNCHANGED <<index_type, action_type, root, source_entries, source_disk,
                query, candidates, main>>

\* What no step of an import or a mirror touches.
Frame == CallFrame /\ UNCHANGED clean

\* ------------------------------------------------- returning from a call

\* import_file_maybe_metadata returns `result`; `step` is the step that failed.
\* Inside mirror_specified an Err is propagated by `?` and ends the mirror.
\* pc = "returned" is the state in which the public call has just returned.
ImportReturn(result, step) ==
    /\ call' = [call EXCEPT !.result = result, !.step = step]
    /\ IF mirror = None
       THEN /\ pc' = "returned"
            /\ UNCHANGED mirror
       ELSE IF result = "Ok"
       THEN /\ pc' = "mirror"
            /\ UNCHANGED mirror
       ELSE /\ pc' = "returned"
            /\ mirror' = Some([mirror[1] EXCEPT !.result = result])

\* The caller goes on to its next call (after a failed FileIndex::new there is
\* no index to call, and a panic ends the caller).
Resume ==
    /\ pc = "returned"
    /\ call.op = "new" => call.result = "Ok"
    /\ call.result # "panic"
    /\ clean # None => clean[1].result # "panic"
    /\ pc' = "idle"
    /\ call' = NoCall
    /\ mirror' = None
    /\ clean' = None
    /\ UNCHANGED <<entries, disk, tmp>> /\ CallFrame

\* --------------------------------------- import_file_maybe_metadata, entry

\* Path::is_relative: a path is a sequence of components, and an absolute one
\* starts with the root component "/".
is_relative(path) == path = <<>> \/ Head(path) # "/"

\* The first statement of do_copy is assert!(relative_path.is_relative()); it
\* runs in both modes and panics before anything is touched.
BeginImport(op, rel, source, info) ==
    /\ call' = [op |-> op, rel |-> rel, source |-> source, info |-> info,
                prior |-> FileAt(disk, rel),
                result |-> IF is_relative(rel) THEN "" ELSE "panic",
                step |-> ""]
    /\ pc' = IF is_relative(rel) THEN "do_copy" ELSE "returned"

import_file(rel, source) ==
    /\ pc = "idle"
    /\ BeginImport("import_file", rel, source, None)
    /\ UNCHANGED <<entries, disk, tmp, mirror>> /\ Frame

import_file_with_metadata(rel, source, info) ==
    /\ pc = "idle"
    /\ BeginImport("import_file_with_metadata", rel, source, Some(info))
    /\ UNCHANGED <<entries, disk, tmp, mirror>> /\ Frame

\* A step of do_copy fails: remember the error, go to the Err arm.
Fail(error, step, next) ==
    /\ call' = [call EXCEPT !.result = error, !.step = step]
    /\ pc' = next

\* ------------------------------------------------------- do_copy, Dry mode

DryImport ==
    /\ pc = "do_copy" /\ action_type = "Dry"
    /\ call.source \in DOMAIN source_disk
    /\ entries' = Insert(entries, call.rel,
                         FileInfoNew(call.source, source_disk[call.source]))
    /\ ImportReturn("Ok", "")
    /\ UNCHANGED <<disk, tmp>> /\ Frame

\* FileInfo::new(source) fails: the source is missing or cannot be read.
DryImportFail ==
    /\ pc = "do_copy" /\ action_type = "Dry"
    /\ Fail("Io", "metadata", "failed")
    /\ UNCHANGED <<entries, disk, tmp, mirror>> /\ Frame

\* ------------------------------------------------------ do_copy, Real mode

CreateDirAll ==
    /\ pc = "do_copy" /\ action_type = "Real"
    /\ pc' = "copy"
    /\ UNCHANGED <<entries, disk, tmp, call, mirror>> /\ Frame

CreateDirAllFail ==
    /\ pc = "do_copy" /\ action_type = "Real"
    /\ Fail("Io", "create_dir_all", "failed")
    /\ UNCHANGED <<entries, disk, tmp, mirror>> /\ Frame

\* ------------------------------------------------------------- safer_copy

\* std::fs::copy opens the source first: a missing source fails before the
\* temporary file exists.
CopyNoSource ==
    /\ pc = "copy"
    /\ call.source \notin DOMAIN source_disk
    /\ Fail("Cp", "copy", "copy_failed")
    /\ UNCHANGED <<entries, disk, tmp, mirror>> /\ Frame

\* Mutant of CopyStart: the copy writes to dest_path itself.
CopyStartInPlace ==
    /\ pc = "copy"
    /\ call.source \in DOMAIN source_disk
    /\ \E n \in 0..MaxData, t \in Times :
          /\ n < source_disk[call.source].data
          /\ disk' = Insert(disk, call.rel,
                            [data |-> source_disk[call.source].data, len |-> n,
                             mtime |-> t])
    /\ pc' = "copying"
    /\ UNCHANGED <<entries, tmp, call, mirror>> /\ Frame

\* std::fs::copy creates dest_path_temp and starts writing: the temporary file
\* holds a proper prefix of the source.
CopyStart ==
    /\ pc = "copy"
    /\ call.source \in DOMAIN source_disk
    /\ \E n \in 0..MaxData, t \in Times :
          /\ n < source_disk[call.source].data
          /\ tmp' = Some([data |-> source_disk[call.source].data, len |-> n,
                          mtime |-> t])
    /\ pc' = "copying"
    /\ UNCHANGED <<entries, disk, call, mirror>> /\ Frame

\* std::fs::copy writes the rest.
CopyFinish ==
    /\ pc = "copying"
    /\ tmp # None
    /\ tmp' = Some([tmp[1] EXCEPT !.len = tmp[1].data])
    /\ pc' = "sync_data"
    /\ UNCHANGED <<entries, disk, call, mirror>> /\ Frame

\* std::fs::copy fails part-way: the temporary file stays partially written.
CopyFail ==
    /\ pc = "copying"
    /\ Fail("Cp", "copy", "copy_failed")
    /\ UNCHANGED <<entries, disk, tmp, mirror>> /\ Frame

SyncData ==
    /\ pc = "sync_data"
    /\ pc' = "rename"
    /\ UNCHANGED <<entries, disk, tmp, call, mirror>> /\ Frame

SyncDataFail ==
    /\ pc = "sync_data"
    /\ Fail("Io", "sync_data", "copy_failed")
    /\ UNCHANGED <<entries, disk, tmp, mirror>> /\ Frame

\* std::fs::rename(dest_path_temp, dest_path) replaces the destination at once.
Rename ==
    /\ pc = "rename"
    /\ tmp # None
    /\ disk' = Insert(disk, call.rel, tmp[1])
    /\ tmp' = None
    /\ pc' = "copied"
    /\ UNCHANGED <<entries, call, mirror>> /\ Frame

RenameFail ==
    /\ pc = "rename"
    /\ Fail("Mv", "rename", "copy_failed")
    /\ UNCHANGED <<entries, disk, tmp, mirror>> /\ Frame

\* The Err arm of safer_copy: remove the temporary file, return the error.
RemoveTemp ==
    /\ pc = "copy_failed"
    /\ tmp' = None
    /\ pc' = "failed"
    /\ UNCHANGED <<entries, disk, call, mirror>> /\ Frame

\* --------------------------------------------- do_copy after safer_copy

\* info is None: do_copy returns Ok(()) without touching self.entries.
CopiedNoInfo ==
    /\ pc = "copied"
    /\ call.info = None
    /\ ImportReturn("Ok", "")
    /\ UNCHANGED <<entries, disk, tmp>> /\ Frame

SetModificationTime ==
    /\ pc = "copied"
    /\ call.info # None
    /\ call.rel \in DOMAIN disk
    /\ disk' = [disk EXCEPT ![call.rel].mtime = call.info[1].modification_time]
    /\ pc' = "verify"
    /\ UNCHANGED <<entries, tmp, call, mirror>> /\ Frame

SetModificationTimeFail ==
    /\ pc = "copied"
    /\ call.info # None
    /\ Fail("Io", "set_modification_time", "failed")
    /\ UNCHANGED <<entries, disk, tmp, mirror>> /\ Frame

\* FileInfo::new(&dest_path) and the comparison with info.
VerifyMatch ==
    /\ pc = "verify"
    /\ call.rel \in DOMAIN disk
    /\ FileInfoNew(call.rel, disk[call.rel]) = call.info[1]
    /\ entries' = Insert(entries, call.rel, FileInfoNew(call.rel, disk[call.rel]))
    /\ ImportReturn("Ok", "")
    /\ UNCHANGED <<disk, tmp>> /\ Frame

VerifyMismatch ==
    /\ pc = "verify"
    /\ call.rel \in DOMAIN disk
    /\ FileInfoNew(call.rel, disk[call.rel]) # call.info[1]
    /\ Fail("FileMismatch", "compare", "failed")
    /\ UNCHANGED <<entries, disk, tmp, mirror>> /\ Frame

VerifyFail ==
    /\ pc = "verify"
    /\ Fail("Io", "metadata", "failed")
    /\ UNCHANGED <<entries, disk, tmp, mirror>> /\ Frame

\* ------------------------------- the Err arm of import_file_maybe_metadata

\* Mutant of ImportErr: the file is removed whatever the action type.
ImportErrAnyMode ==
    /\ pc = "failed"
    /\ disk' = Remove(disk, call.rel)
    /\ ImportReturn(call.result, call.step)
    /\ UNCHANGED <<entries, tmp>> /\ Frame

\* In Real mode the file at dest_path is removed (best effort), then the
\* error is returned.
ImportErr ==
    /\ pc = "failed"
    /\ disk' = IF action_type = "Real" THEN Remove(disk, call.rel) ELSE disk
    /\ ImportReturn(call.result, call.step)
    /\ UNCHANGED <<entries, tmp>> /\ Frame

\* ------------------------------------------------------------ remove_file

\* The call record of remove_file(path).
RemoveCall(path) ==
    [NoCall EXCEPT !.op = "remove_file", !.rel = path,
                   !.prior = FileAt(disk, path)]

\* remove_file(path) up to the test of the map entry: a vacant entry returns
\* FileMissing, an occupied one goes on to the deletion.
remove_file(path) ==
    /\ pc = "idle"
    /\ IF path \in DOMAIN entries
       THEN /\ call' = RemoveCall(path)
            /\ pc' = "remove"
       ELSE /\ call' = [RemoveCall(path) EXCEPT !.result = "FileMissing"]
            /\ pc' = "returned"
    /\ UNCHANGED <<entries, disk, tmp, mirror>> /\ Frame

\* Mutant of RemoveFromDisk: the map entry goes together with the file.
RemoveFromDiskAndMap ==
    /\ pc = "remove" /\ action_type = "Real"
    /\ call.rel \in DOMAIN disk
    /\ disk' = Remove(disk, call.rel)
    /\ entries' = Remove(entries, call.rel)
    /\ pc' = "remove_entry"
    /\ UNCHANGED <<tmp, call, mirror>> /\ Frame

\* Real mode: std::fs::remove_file(&path) succeeds.
RemoveFromDisk ==
    /\ pc = "remove" /\ action_type = "Real"
    /\ call.rel \in DOMAIN disk
    /\ disk' = Remove(disk, call.rel)
    /\ pc' = "remove_entry"
    /\ UNCHANGED <<entries, tmp, call, mirror>> /\ Frame

\* remove_file returns `result`.  Inside clean_old_dbs an Err is propagated
\* by `?` and ends the call.
RemoveReturn(result, step) ==
    /\ call' = [call EXCEPT !.result = result, !.step = step]
    /\ IF clean = None
       THEN /\ pc' = "returned"
            /\ UNCHANGED clean
       ELSE IF result = "Ok"
       THEN /\ pc' = "clean"
            /\ UNCHANGED clean
       ELSE /\ pc' = "returned"
            /\ clean' = Some([clean[1] EXCEPT !.result = result])

\* Real mode: std::fs::remove_file fails and `?` returns the error before the
\* entry is removed.
RemoveFromDiskFail ==
    /\ pc = "remove" /\ action_type = "Real"
    /\ RemoveReturn("Io", "remove_file")
    /\ UNCHANGED <<entries, disk, tmp, mirror>> /\ CallFrame

\* entry.remove_entry(); Ok(()).  Dry mode comes here without touching disk.
RemoveEntry ==
    /\ \/ pc = "remove_entry"
       \/ pc = "remove" /\ action_type = "Dry"
    /\ entries' = Remove(entries, call.rel)
    /\ RemoveReturn("Ok", "")
    /\ UNCHANGED <<disk, tmp, mirror>> /\ CallFrame

\* ------------------------------------------------------- mirror_specified

\* Mutant of ChangedPaths: the metadata of common files is never compared.
ChangedPathsSkipped(dst, src, files) == {}

\* Mutant of ChangedPaths: the first loop takes the missing files as well.
ChangedOrMissingPaths(dst, src, files) ==
    {p \in files \cap DOMAIN src : p \notin DOMAIN dst \/ dst[p] # src[p]}

\* The common paths whose records differ ("Updating changed file").
ChangedPaths(dst, src, files) ==
    {p \in (files \cap DOMAIN src) \cap DOMAIN dst : dst[p] # src[p]}

\* The requested paths the destination lacks ("Copying missing file").
MissingPaths(dst, src, files) ==
    {p \in files \cap DOMAIN src : p \notin DOMAIN dst}

\* Mutant of MirrorBegin: the requested paths are not validated.
MirrorBeginUnchecked(files, again) ==
    /\ mirror' = Some([files |-> files, phase |-> "changed",
                       todo |-> ChangedPaths(entries, source_entries, files),
                       imports |-> 0, repeat |-> again,
                       first |-> IF again THEN mirror[1].imports ELSE 0,
                       before |-> entries, disk_before |-> disk,
                       result |-> ""])
    /\ pc' = "mirror"

\* mirror_specified(source_index, files).  `again` tells that the call repeats
\* the mirror that has just returned Ok, with nothing run in between, and
\* `first` is then the number of imports of the first pass.  `before` and
\* `disk_before` keep the destination map and tree as they were when the call
\* began.
MirrorBegin(files, again) ==
    IF ~(files \subseteq DOMAIN source_entries)
    THEN /\ mirror' = Some([files |-> files, phase |-> "validate", todo |-> {},
                            imports |-> 0, repeat |-> again, first |-> 0,
                            before |-> entries, disk_before |-> disk,
                            result |-> "IndexEntryMissing"])
         /\ pc' = "returned"
    ELSE /\ mirror' = Some([files |-> files, phase |-> "changed",
                            todo |-> ChangedPaths(entries, source_entries, files),
                            imports |-> 0, repeat |-> again,
                            first |-> IF again THEN mirror[1].imports ELSE 0,
                            before |-> entries, disk_before |-> disk,
                            result |-> ""])
         /\ pc' = "mirror"

mirror_specified(files) ==
    /\ pc = "idle"
    /\ MirrorBegin(files, FALSE)
    /\ UNCHANGED <<entries, disk, tmp, call>> /\ Frame

mirror_all ==
    /\ pc = "idle"
    /\ MirrorBegin(DOMAIN source_entries, FALSE)
    /\ UNCHANGED <<entries, disk, tmp, call>> /\ Frame

\* The caller mirrors the same paths again right after a successful mirror.
mirror_again ==
    /\ pc = "returned"
    /\ mirror # None
    /\ mirror[1].result = "Ok" /\ ~mirror[1].repeat
    /\ MirrorBegin(mirror[1].files, TRUE)
    /\ call' = NoCall
    /\ UNCHANGED <<entries, disk, tmp>> /\ Frame

\* One iteration of either loop: import_file_with_metadata(rel_path,
\* source_index.path.join(rel_path), the source's record).
MirrorImport ==
    /\ pc = "mirror"
    /\ \E p \in mirror[1].todo :
          /\ BeginImport("import_file_with_metadata", p, p, Some(source_entries[p]))
          /\ mirror' = Some([mirror[1] EXCEPT !.todo = @ \ {p},
                                              !.imports = @ + 1])
    /\ UNCHANGED <<entries, disk, tmp>> /\ Frame

\* The "changed" loop is over: compute `missing` from the entries as they are
\* now.  No import is running.
MirrorStartMissing ==
    /\ pc = "mirror"
    /\ mirror[1].phase = "changed" /\ mirror[1].todo = {}
    /\ mirror' = Some([mirror[1] EXCEPT
                         !.phase = "missing",
                         !.todo = MissingPaths(entries, source_entries,
                                               mirror[1].files)])
    /\ call' = NoCall
    /\ UNCHANGED <<entries, disk, tmp, pc>> /\ Frame

\* Mutant of MirrorDone: the paths the source lacks are dropped from the map.
MirrorDonePruning ==
    /\ pc = "mirror"
    /\ mirror[1].phase = "missing" /\ mirror[1].todo = {}
    /\ pc' = "returned"
    /\ mirror' = Some([mirror[1] EXCEPT !.result = "Ok"])
    /\ call' = NoCall
    /\ entries' = [p \in DOMAIN entries \cap DOMAIN source_entries |-> entries[p]]
    /\ UNCHANGED <<disk, tmp>> /\ Frame

MirrorDone ==
    /\ pc = "mirror"
    /\ mirror[1].phase = "missing" /\ mirror[1].todo = {}
    /\ pc' = "returned"
    /\ mirror' = Some([mirror[1] EXCEPT !.result = "Ok"])
    /\ call' = NoCall
    /\ UNCHANGED <<entries, disk, tmp>> /\ Frame

\* ------------------------------------------------------------------- Spec

\* The steps of import_file_maybe_metadata that every specification takes.
ImportStep ==
    \/ DryImport
    \/ DryImportFail
    \/ CreateDirAll
    \/ CreateDirAllFail
    \/ CopyStart
    \/ CopyFinish
    \/ CopyFail
    \/ SyncData
    \/ SyncDataFail
    \/ Rename
    \/ RenameFail
    \/ RemoveTemp
    \/ SetModificationTime
    \/ SetModificationTimeFail
    \/ VerifyMatch
    \/ VerifyFail
    \/ ImportErr

Next ==
    \/ \E rel \in ImportPaths, source \in ImportPaths : import_file(rel, source)
    \/ \E rel \in ImportPaths, source \in ImportPaths :
          \E info \in InfoChoices(rel) : import_file_with_metadata(rel, source, info)
    \/ \E path \in ImportPaths : remove_file(path)
    \/ RemoveFromDisk
    \/ RemoveFromDiskFail
    \/ RemoveEntry
    \/ ImportStep
    \/ CopyNoSource
    \/ CopiedNoInfo
    \/ VerifyMismatch
    \/ Resume

Spec == Init /\ [][Next]_vars

\* The source tree is not written while the mirror runs, so the source is
\* there to copy and the copy has the size the source index recorded.
MirrorNext ==
    \/ \E files \in SUBSET Paths : mirror_specified(files)
    \/ mirror_all
    \/ mirror_again
    \/ MirrorImport
    \/ MirrorStartMissing
    \/ MirrorDone
    \/ ImportStep
    \/ Resume

MirrorSpec == MirrorInit /\ [][MirrorNext]_vars

\* ------------------------------------------------------ retention queries

MaxAge == 2

QuerySizes == {50, 100, 200}

QueryLimits == {0, 180, 350, 600}

MediaA == <<"Media", "A">>
MediaB == <<"Media", "B">>
MediaC == <<"Media", "C">>

\* The paths of QuerySpec whose presence and records vary.
QueryPaths == {MediaA, MediaB, MediaC}

\* The files every index of QuerySpec holds besides: neither is a media file.
OtherFiles ==
    (<<"Media", ".nomedia">> :> [data |-> 50, len |-> 50, mtime |-> 0])
    @@ (<<"Databases", "msgstore.db.crypt14">> :> [data |-> 200, len |-> 200, mtime |-> 0])

QueryTrees ==
    UNION {[S -> {[data |-> n, len |-> n, mtime |-> t] :
                     n \in QuerySizes, t \in 0..MaxAge}] : S \in SUBSET QueryPaths}

\* FileQuery, with the clock reading `now` that Utc::now() gives during the call.
Queries ==
    [order : {"Smaller", "Newer", "SmallerNewer"},
     data_limit : {<<"Infinite">>} \cup {<<"Bytes", l>> : l \in QueryLimits},
     priority : {<<"Constant", b>> : b \in BOOLEAN}
                \cup {<<"AgeLessThan", d>> : d \in 0..MaxAge},
     now : {MaxAge}]

\* Mutant of is_media_file: the .nomedia placeholder counts as media.
is_media_file_any_name(path) ==
    path[1] = "Media"

is_media_file(path) ==
    path[1] = "Media" /\ file_name(path) # ".nomedia"

media_files(index) == {p \in DOMAIN index : is_media_file(p)}

RECURSIVE SumSizes(_, _)
SumSizes(index, S) ==
    IF S = {} THEN 0
    ELSE LET p == CHOOSE x \in S : TRUE
         IN  index[p].size + SumSizes(index, S \ {p})

media_size_bytes(index) == SumSizes(index, media_files(index))

RECURSIVE Pow2(_)
Pow2(n) == IF n = 0 THEN 1 ELSE 2 * Pow2(n - 1)

\* FilePredicate::matches
matches(predicate, info, now) ==
    IF predicate[1] = "Constant" THEN predicate[2]
    ELSE now - info.estimated_creation_date <= predicate[2]

\* FileScore::evaluate; the age is counted in half-lives.
evaluate(order, info, now) ==
    CASE order = "Smaller" -> 0 - info.size
      [] order = "Newer" -> 0 - info.estimated_creation_date
      [] order = "SmallerNewer" ->
            0 - info.size * Pow2(now - info.estimated_creation_date)

\* Mutant of calculate_priority: the priority predicate is not consulted.
calculate_priority_no_class(q, info) ==
    <<0, evaluate(q.order, info, q.now)>>

\* The closure calculate_priority: (class, value).
calculate_priority(q, info) ==
    <<IF matches(q.priority, info, q.now) THEN 1 ELSE 0,
      evaluate(q.order, info, q.now)>>

\* partial_cmp on (i32, f64) is not Greater.
KeyLeq(a, b) == a[1] < b[1] \/ (a[1] = b[1] /\ a[2] <= b[2])

\* What sort_unstable_by may leave: the orders of the media files that ascend
\* by calculate_priority (files with equal keys in any order).
SortedOrders(index, q) ==
    LET M == media_files(index)
        n == Cardinality(M)
    IN  {s \in [1..n -> M] :
            /\ \A i, j \in 1..n : i # j => s[i] # s[j]
            /\ \A i \in 1..n : i < n =>
                  KeyLeq(calculate_priority(q, index[s[i]]),
                         calculate_priority(q, index[s[i + 1]]))}

saturating_sub(a, b) == IF a >= b THEN a - b ELSE 0

\* Mutant of WithinLimit: the loop stops only below the limit.
WithinLimitStrict(total, limit) == total < limit

\* The test that ends the loop.
WithinLimit(total, limit) == total <= limit

\* The loop over media_entries.iter().enumerate(): `idx` is the 0-based index
\* of the entry looked at; the value is `count` when the loop ends.
RECURSIVE WalkCount(_, _, _, _, _, _)
WalkCount(index, order, idx, total, count, limit) ==
    IF idx >= Len(order) THEN count
    ELSE IF WithinLimit(total, limit) THEN idx
    ELSE WalkCount(index, order, idx + 1,
                   saturating_sub(total, index[order[idx + 1]].size), idx, limit)

\* Mutant of SplitOff: the entries are taken from the end of the order.
SplitOffTail(order, count) ==
    [delete |-> SubSeq(order, Len(order) - count + 1, Len(order)),
     retain |-> SubSeq(order, 1, Len(order) - count)]

\* media_entries.split_off(count): the first `count` entries are to_delete.
SplitOff(order, count) ==
    [delete |-> SubSeq(order, 1, count),
     retain |-> SubSeq(order, count + 1, Len(order))]

\* get_delete_retain_candidates for one outcome `order` of the sort.
Candidates(index, q, order) ==
    IF q.data_limit[1] = "Infinite"
    THEN [delete |-> <<>>, retain |-> order]
    ELSE SplitOff(order, WalkCount(index, order, 0, media_size_bytes(index), 0,
                                   q.data_limit[2]))

get_delete_retain_candidates ==
    /\ candidates = None
    /\ \E order \in SortedOrders(entries, query[1]) :
          candidates' = Some(Candidates(entries, query[1], order))
    /\ UNCHANGED <<index_type, action_type, root, entries, disk, tmp,
                   source_entries, source_disk, pc, call, mirror, clean, query,
                   main>>

QueryInit ==
    /\ index_type = "Archive"
    /\ action_type = "Real"
    /\ root = ArchiveRoot
    /\ clean = None
    /\ \E tree \in QueryTrees : disk = tree @@ OtherFiles
    /\ entries = rebuild_index(disk)
    /\ source_disk = <<>>
    /\ source_entries = <<>>
    /\ tmp = None
    /\ pc = "idle"
    /\ call = NoCall
    /\ mirror = None
    /\ \E q \in Queries : query = Some(q)
    /\ candidates = None
    /\ main = None

QueryNext == get_delete_retain_candidates

QuerySpec == QueryInit /\ [][QueryNext]_vars

\* ------------------------------------------------------------ clean_old_dbs

MaxKeep == 2

\* File names under Databases.  Dates are days counted from 2023-06-13.
FullDb14 == "msgstore.db.crypt14"
FullDb15 == "msgstore.db.crypt15"
IncrementDb14 == "msgstore-increment-1.db.crypt14"
Dated13 == "msgstore-2023-06-13.1.db.crypt14"
DatedIncrement13 == "msgstore-increment-1-2023-06-13.1.db.crypt14"
Dated14 == "msgstore-2023-06-14.1.db.crypt14"
Dated15 == "msgstore-2023-06-15.1.db.crypt14"
DatedLiteral == "msgstore-P<date>2023-06-13.1.db.crypt14"

CurrentNames == {FullDb14, FullDb15, IncrementDb14}
DatedNames == {Dated13, DatedIncrement13, Dated14, Dated15}

starts_with_Databases(path) == path[1] = "Databases"

\* db_regex of clean_previous_dbs applied to a path.  Its second group is
\* written `(<?P<date>...)`: an unnamed group that matches an optional `<`,
\* the literal text `P<date>` and then the digits of a date, so that a name
\* matches only if it holds that literal text.
previous_db_regex_is_match(path) == file_name(path) = DatedLiteral

\* captures.name("date"): the pattern has no group of that name.
previous_db_regex_date(path) == None

\* db_regex of clean_current_db applied to a file name: the captures
\* `incremental` and `extension`, if the name matches.
current_db_regex_captures(name) ==
    CASE name = FullDb14 -> Some([is_incremental |-> FALSE, file_extension |-> "crypt14"])
      [] name = FullDb15 -> Some([is_incremental |-> FALSE, file_extension |-> "crypt15"])
      [] name = IncrementDb14 -> Some([is_incremental |-> TRUE, file_extension |-> "crypt14"])
      [] OTHER -> None

\* The paths clean_previous_dbs collects into path_dates.
path_dates(index) ==
    {p \in DOMAIN index : starts_with_Databases(p) /\ previous_db_regex_is_match(p)}

\* clean_previous_dbs panics ("Date regex capture missing") when a path
\* matches and its date capture is None.
previous_dbs_panics(index) ==
    \E p \in path_dates(index) : previous_db_regex_date(p) = None

\* Otherwise unique_dates holds the captured dates; with unique_dates.len()
\* <= keep nothing is deleted.
previous_dbs_returns_early(index, keep) ==
    Cardinality({previous_db_regex_date(p) : p \in path_dates(index)}) <= keep

\* db_infos: the paths under Databases whose file name matches, with DbInfo.
db_infos(index) ==
    {p \in DOMAIN index :
        starts_with_Databases(p) /\ current_db_regex_captures(file_name(p)) # None}

DbInfoOf(index, p) ==
    [is_incremental |-> current_db_regex_captures(file_name(p))[1].is_incremental,
     file_extension |-> current_db_regex_captures(file_name(p))[1].file_extension,
     last_modified |-> index[p].modification_time]

\* What max_by_key may return as latest_db_info: a full backup whose
\* last_modified no other full backup exceeds (HashMap order decides a tie).
latest_db_infos(index) ==
    LET full == {p \in db_infos(index) : ~DbInfoOf(index, p).is_incremental}
    IN  {p \in full :
            \A q \in full :
               DbInfoOf(index, q).last_modified <= DbInfoOf(index, p).last_modified}

\* Mutant of outdated_increment: an increment as old as the full backup counts.
outdated_increment_or_equal(info, last_modified) ==
    info.is_incremental /\ info.last_modified <= last_modified

outdated_increment(info, last_modified) ==
    info.is_incremental /\ info.last_modified < last_modified

\* The paths the loop of clean_current_db calls remove_file on.
current_to_delete(index, latest) ==
    {p \in db_infos(index) :
        \/ DbInfoOf(index, p).file_extension # DbInfoOf(index, latest).file_extension
        \/ outdated_increment(DbInfoOf(index, p),
                              DbInfoOf(index, latest).last_modified)}

\* clean_old_dbs(keep) up to the loop of clean_current_db.  `before` keeps
\* the map as it was when the call began.
clean_old_dbs(keep) ==
    /\ pc = "idle"
    /\ LET begun == [op |-> "clean_old_dbs", keep |-> keep, todo |-> {},
                     before |-> entries, result |-> ""]
       IN  IF previous_dbs_panics(entries)
           THEN /\ clean' = Some([begun EXCEPT !.result = "panic"])
                /\ pc' = "returned"
           ELSE /\ previous_dbs_returns_early(entries, keep)
                /\ IF latest_db_infos(entries) = {}
                   THEN \* expect("Unable to find current database")
                        /\ clean' = Some([begun EXCEPT !.result = "panic"])
                        /\ pc' = "returned"
                   ELSE /\ \E latest \in latest_db_infos(entries) :
                              clean' = Some([begun EXCEPT
                                               !.todo = current_to_delete(entries, latest)])
                        /\ pc' = "clean"
    /\ UNCHANGED <<entries, disk, tmp, call, mirror>> /\ CallFrame

\* One iteration of the loop: self.remove_file(&path)? on an indexed path.
CleanRemove ==
    /\ pc = "clean"
    /\ \E p \in clean[1].todo :
          /\ clean' = Some([clean[1] EXCEPT !.todo = @ \ {p}])
          /\ call' = RemoveCall(p)
    /\ pc' = "remove"
    /\ UNCHANGED <<entries, disk, tmp, mirror>> /\ CallFrame

CleanDone ==
    /\ pc = "clean"
    /\ clean[1].todo = {}
    /\ clean' = Some([clean[1] EXCEPT !.result = "Ok"])
    /\ call' = NoCall
    /\ pc' = "returned"
    /\ UNCHANGED <<entries, disk, tmp, mirror>> /\ CallFrame

\* The trees of RotateSpec: current backups of any modification time, dated
\* snapshots, a name holding the literal text the first pattern asks for,
\* and a media file.
RotateTrees ==
    {cur @@ dated @@ other :
        cur \in UNION {[{<<"Databases", n>> : n \in S} ->
                          {[data |-> 1, len |-> 1, mtime |-> t] : t \in Times}] :
                       S \in SUBSET CurrentNames},
        dated \in {[p \in {<<"Databases", n>> : n \in S} |->
                      [data |-> 1, len |-> 1, mtime |-> 0]] : S \in SUBSET DatedNames},
        other \in {[p \in S |-> [data |-> 1, len |-> 1, mtime |-> 0]] :
                      S \in SUBSET {<<"Databases", DatedLiteral>>}}}

RotateInit ==
    /\ disk \in RotateTrees
    /\ source_disk = <<>>
    /\ InitIndex

RotateNext ==
    \/ \E keep \in 1..MaxKeep : clean_old_dbs(keep)
    \/ CleanRemove
    \/ RemoveFromDisk
    \/ RemoveFromDiskFail
    \/ RemoveEntry
    \/ CleanDone
    \/ Resume

RotateSpec == RotateInit /\ [][RotateNext]_vars

\* -------------------------------------------------------- clean_old_backups

\* File names under Backups.
Settings14 == "chatsettingsbackup.db.crypt14"
Settings15 == "chatsettingsbackup.db.crypt15"
Stickers14 == "stickers.db.crypt14"
HiddenSettings == ".chatsettingsbackup.db.crypt1"

\* The paths of BackupSpec: three files directly under Backups, two of them
\* with one prefix; a hidden file; a file one level deeper; a file elsewhere.
BackupPaths ==
    {<<"Backups", Settings14>>, <<"Backups", Settings15>>,
     <<"Backups", Stickers14>>, <<"Backups", HiddenSettings>>,
     <<"Backups", "old", Settings14>>, <<"Media", Settings14>>}

\* determine_filename_prefix: the file name up to its first '.'.
determine_filename_prefix(path) ==
    CASE file_name(path) \in {Settings14, Settings15} -> "chatsettingsbackup"
      [] file_name(path) = Stickers14 -> "stickers"
      [] file_name(path) = HiddenSettings -> ""

\* f.starts_with('.')
starts_with_dot(name) == name = HiddenSettings

\* backup_files_and_info: the top-level files of Backups that are not hidden.
backup_files(index) ==
    {p \in DOMAIN index :
        p[1] = "Backups" /\ Len(p) = 2 /\ ~starts_with_dot(file_name(p))}

\* latest[prefix]: the maximum modification time among the files of a prefix.
latest_modification_time(index, prefix) ==
    CHOOSE t \in {index[p].modification_time : p \in backup_files(index)} :
       /\ \E p \in backup_files(index) :
             determine_filename_prefix(p) = prefix /\ index[p].modification_time = t
       /\ \A p \in backup_files(index) :
             determine_filename_prefix(p) = prefix => index[p].modification_time <= t

\* The test of the second loop: modification_time < *latest_modification_time.
is_older_backup(index, p) ==
    index[p].modification_time
       < latest_modification_time(index, determine_filename_prefix(p))

\* clean_old_backups up to its second loop.
clean_old_backups ==
    /\ pc = "idle"
    /\ clean' = Some([op |-> "clean_old_backups", keep |-> 0,
                      todo |-> {p \in backup_files(entries) : is_older_backup(entries, p)},
                      before |-> entries, result |-> ""])
    /\ pc' = "clean"
    /\ UNCHANGED <<entries, disk, tmp, call, mirror>> /\ CallFrame

BackupInit ==
    /\ disk \in UNION {[S -> {[data |-> 1, len |-> 1, mtime |-> t] : t \in Times}] :
                        S \in SUBSET BackupPaths}
    /\ source_disk = <<>>
    /\ InitIndex

BackupNext ==
    \/ clean_old_backups
    \/ CleanRemove
    \/ RemoveFromDisk
    \/ RemoveFromDiskFail
    \/ RemoveEntry
    \/ CleanDone
    \/ Resume

BackupSpec == BackupInit /\ [][BackupNext]_vars

\* ---------------------------------------------------------- FileIndex::new

\* The file names FileIndex::new looks for under Databases, by suffix.
DbFileName ==
    [crypt14 |-> "msgstore.db.crypt14", crypt15 |-> "msgstore.db.crypt15"]

\* The paths of the trees FileIndex::new is applied to.
ConstructPaths ==
    {<<"Media", DatedName>>,
     <<"Databases", DbFileName.crypt14>>,
     <<"Databases", DbFileName.crypt15>>}

\* The states a root directory and its tree of regular files can be in: a
\* directory that does not exist holds nothing.
Roots(P) ==
    {rt \in [root : [exists : BOOLEAN, marker : BOOLEAN, stray : BOOLEAN],
             tree : Trees(P)] :
        ~rt.root.exists => ~rt.root.marker /\ ~rt.root.stray /\ rt.tree = <<>>}

\* `found_db` after the loop over the suffixes.
found_db(tree) ==
    \E suffix \in {"crypt14", "crypt15"} :
       <<"Databases", DbFileName[suffix]>> \in DOMAIN tree

\* path.read_dir().count() = 0: the marker is known to be absent.
num_entries_is_zero(r, tree) == tree = <<>> /\ ~r.stray

\* One way FileIndex::new can end: its result, the step that failed, the
\* root directory as it leaves it, and the entries of the index it returns.
Outcome(result, step, r, index) ==
    [result |-> result, step |-> step, root |-> r, entries |-> index]

\* From canonicalize on: the path is resolved and, unless the archive is
\* `new`, the index is rebuilt from the tree.
Opened(r, tree, new) ==
    {Outcome("Io", "canonicalize", r, <<>>)}
    \cup (IF new
          THEN {Outcome("Ok", "", r, <<>>)}
          ELSE {Outcome("Ok", "", r, rebuild_index(tree)),
                Outcome("Io", "rebuild_index", r, <<>>)})

\* Mutant of OriginalOutcomes: the marker file is not looked for.
OriginalOutcomesNoTag(r, tree) ==
    IF ~found_db(tree)
    THEN {Outcome("NotWhatsAppFolder", "", r, <<>>)}
    ELSE Opened(r, tree, FALSE)

\* IndexType::Original.
OriginalOutcomes(r, tree) ==
    IF ~found_db(tree) \/ r.marker
    THEN {Outcome("NotWhatsAppFolder", "", r, <<>>)}
    ELSE Opened(r, tree, FALSE)

\* IndexType::Archive.
ArchiveOutcomes(at, r, tree) ==
    IF at = "Real"
    THEN LET created == [r EXCEPT !.exists = TRUE]
         IN  (IF ~r.exists THEN {Outcome("Io", "create_dir_all", r, <<>>)} ELSE {})
             \cup
             (IF created.marker
              THEN Opened(created, tree, FALSE)
              ELSE {Outcome("Io", "read_dir", created, <<>>)}
                   \cup
                   (IF num_entries_is_zero(created, tree)
                    THEN {Outcome("Io", "write", created, <<>>)}
                         \cup Opened([created EXCEPT !.marker = TRUE], tree, FALSE)
                    ELSE {Outcome("NewArchiveFolderNotEmpty", "", created, <<>>)}))
    ELSE Opened(r, tree, ~r.marker)

\* FileIndex::new(index_type, path, action_type) on the destination root.
FileIndexNew ==
    /\ pc = "start"
    /\ \E o \in (IF index_type = "Original"
                 THEN OriginalOutcomes(root, disk)
                 ELSE ArchiveOutcomes(action_type, root, disk)) :
          /\ root' = o.root
          /\ entries' = o.entries
          /\ call' = [NoCall EXCEPT !.op = "new", !.result = o.result,
                                    !.step = o.step]
    /\ pc' = "returned"
    /\ UNCHANGED <<index_type, action_type, disk, tmp, source_entries,
                   source_disk, mirror, clean, query, candidates, main>>

\* The caller constructs another index over the same path.
Reopen ==
    /\ pc = "returned" /\ call.op = "new"
    /\ index_type' \in {"Original", "Archive"}
    /\ action_type' \in {"Real", "Dry"}
    /\ entries' = <<>>
    /\ call' = NoCall
    /\ pc' = "start"
    /\ UNCHANGED <<root, disk, tmp, source_entries, source_disk, mirror, clean,
                   query, candidates, main>>

\* No index has been constructed yet.
Unconstructed ==
    /\ entries = <<>>
    /\ source_entries = rebuild_index(source_disk)
    /\ tmp = None
    /\ pc = "start"
    /\ call = NoCall
    /\ mirror = None
    /\ clean = None
    /\ query = None
    /\ candidates = None
    /\ main = None

ConstructInit ==
    /\ index_type \in {"Original", "Archive"}
    /\ action_type \in {"Real", "Dry"}
    /\ \E rt \in Roots(ConstructPaths) : root = rt.root /\ disk = rt.tree
    /\ source_disk = <<>>
    /\ Unconstructed

ConstructNext ==
    \/ FileIndexNew
    \/ Reopen

ConstructSpec == ConstructInit /\ [][ConstructNext]_vars

\* ScanSpec: FileIndex::new over trees that also hold a file named like the
\* marker in a subdirectory, a subdirectory named like the marker, and a
\* symbolic link.  (The marker proper, at the root, is `root.marker`.)
NestedTag == <<"Media", TAG_NAME>>
TagDirFile == <<"Databases", TAG_NAME, "msgstore.db.crypt14">>
LinkPath == <<"Media", "link">>
ScanPaths == {<<"Databases", DbFileName.crypt14>>, NestedTag, TagDirFile}

ScanTrees ==
    {regular @@ links :
        regular \in Trees(ScanPaths),
        links \in {<<>>, [q \in {LinkPath} |-> Symlink]}}

ScanInit ==
    /\ index_type \in {"Original", "Archive"}
    /\ action_type \in {"Real", "Dry"}
    /\ root \in {r \in [exists : {TRUE}, marker : BOOLEAN, stray : {FALSE}] : TRUE}
    /\ disk \in ScanTrees
    /\ source_disk = <<>>
    /\ Unconstructed

ScanNext ==
    \/ FileIndexNew
    \/ Reopen

ScanSpec == ScanInit /\ [][ScanNext]_vars

\* -------------------------------------------------------------- CrashSpec

\* dest_path_temp: the sibling "<filename>.<random:x>.waa.tmp" of dest_path,
\* for one value of `random`.
dest_path_temp(rel) ==
    SubSeq(rel, 1, Len(rel) - 1) \o <<"msgstore.db.crypt14.1a2b3c4d.waa.tmp">>

\* The regular files under the root, the temporary file of a running
\* safer_copy included.
TreeWithTemp ==
    IF tmp = None THEN disk ELSE Insert(disk, dest_path_temp(call.rel), tmp[1])

\* The process is terminated while an import runs.  The index is lost with
\* the process; the files stay as they are, and the temporary file is from
\* now on one more file of the tree.
Crash ==
    /\ pc \in {"do_copy", "copy", "copying", "sync_data", "rename",
               "copy_failed", "copied", "verify", "failed"}
    /\ disk' = TreeWithTemp
    /\ tmp' = None
    /\ entries' = <<>>
    /\ call' = [NoCall EXCEPT !.op = "crashed", !.step = pc]
    /\ pc' = "start"
    /\ UNCHANGED mirror /\ Frame

CrashInit ==
    /\ action_type = "Real"
    /\ Init

\* Real-mode imports, terminated at any step and followed by a run that
\* constructs the archive index anew.
CrashNext ==
    \/ \E rel \in ImportPaths, source \in ImportPaths : import_file(rel, source)
    \/ \E rel \in ImportPaths, source \in ImportPaths :
          \E info \in InfoChoices(rel) : import_file_with_metadata(rel, source, info)
    \/ CreateDirAll
    \/ CreateDirAllFail
    \/ CopyNoSource
    \/ CopyStart
    \/ CopyFinish
    \/ CopyFail
    \/ SyncData
    \/ SyncDataFail
    \/ Rename
    \/ RenameFail
    \/ RemoveTemp
    \/ CopiedNoInfo
    \/ SetModificationTime
    \/ SetModificationTimeFail
    \/ VerifyMatch
    \/ VerifyMismatch
    \/ VerifyFail
    \/ ImportErr
    \/ Crash
    \/ FileIndexNew
    \/ Resume

CrashSpec == CrashInit /\ [][CrashNext]_vars

\* ------------------------------------------------ relative_path arguments
\*
\* PathSpec: the direct calls of Spec with the relative_path argument drawn
\* from paths of each kind: one below the root, one that climbs out of it
\* through "..", and an absolute one.  The destination of an import is
\* self.path.join(relative_path), so the tree is keyed by the argument as
\* given; a key that starts with ".." names a file beside the root.

ParentPath == <<"..", "msgstore.db.crypt14">>
AbsolutePath == <<"/", "msgstore.db.crypt14">>
PathArgs == ImportPaths \cup {ParentPath, AbsolutePath}

PathNext ==
    \/ \E rel \in PathArgs, source \in ImportPaths : import_file(rel, source)
    \/ \E rel \in PathArgs, source \in ImportPaths :
          \E info \in InfoChoices(rel) : import_file_with_metadata(rel, source, info)
    \/ \E path \in PathArgs : remove_file(path)
    \/ RemoveFromDisk
    \/ RemoveFromDiskFail
    \/ RemoveEntry
    \/ ImportStep
    \/ CopyNoSource
    \/ CopiedNoInfo
    \/ VerifyMismatch
    \/ Resume

\* The archive starts empty.
PathInit ==
    /\ source_disk \in Trees(ImportPaths)
    /\ disk = <<>>
    /\ InitIndex

PathSpec == PathInit /\ [][PathNext]_vars

\* ---------------------------------------------------------------- DrySpec

\* The paths of DrySpec: two current backups, so that clean_old_dbs finds a
\* file to remove.
DryPaths == {<<"Databases", FullDb14>>, <<"Databases", FullDb15>>}

\* A Dry index is constructed over any root, then imported into, removed
\* from, mirrored into and cleaned.  The files of the destination tree, which
\* are only ever indexed, are all alike; the source holds the same file under
\* each of its paths.
DryInit ==
    /\ index_type \in {"Original", "Archive"}
    /\ action_type = "Dry"
    /\ \E rt \in Roots(DryPaths) :
          /\ \A p \in DOMAIN rt.tree : rt.tree[p] = [data |-> 1, len |-> 1, mtime |-> 0]
          /\ root = rt.root /\ disk = rt.tree
    /\ \E S \in SUBSET DryPaths, f \in WholeFiles : source_disk = [p \in S |-> f]
    /\ Unconstructed

DryNext ==
    \/ FileIndexNew
    \/ Resume
    \/ \E rel \in DryPaths, source \in DryPaths : import_file(rel, source)
    \/ \E rel \in DryPaths, source \in DryPaths :
          \E info \in InfoChoices(rel) : import_file_with_metadata(rel, source, info)
    \/ DryImport
    \/ DryImportFail
    \/ ImportErr
    \/ \E path \in DryPaths : remove_file(path)
    \/ RemoveEntry
    \/ \E files \in SUBSET DryPaths : mirror_specified(files)
    \/ mirror_all
    \/ MirrorImport
    \/ MirrorStartMissing
    \/ MirrorDone
    \/ \E keep \in 1..MaxKeep : clean_old_dbs(keep)
    \/ CleanRemove
    \/ CleanDone

DrySpec == DryInit /\ [][DryNext]_vars

\* ------------------------------------------------- main_internal (waa.rs)
\*
\* PipelineSpec: one run of main_internal after both indices have been
\* constructed.  Until the query, `entries`/`disk` are archive_index and
\* `source_entries`/`source_disk` are wa_index; the calls that follow are
\* made on wa_index with archive_index as the other index, so from the query
\* on the two pairs are exchanged and index_type tells which index is self.

DbPath == <<"Databases", FullDb14>>

SmallFile == [data |-> 1, len |-> 1, mtime |-> 0]
LargeFile == [data |-> 2, len |-> 2, mtime |-> 1]
DbFile == [data |-> 1, len |-> 1, mtime |-> 1]

OptionalFile(path, files) ==
    {<<>>} \cup {[q \in {path} |-> f] : f \in files}

\* The WhatsApp folders FileIndex::new(Original, ..) accepts: db_path.exists()
\* holds for msgstore.db.crypt14, which follows a symbolic link.
WhatsAppTrees ==
    {db @@ a @@ b :
        db \in {[q \in {DbPath} |-> f] : f \in {DbFile, Symlink}},
        a \in OptionalFile(MediaA, {SmallFile, LargeFile}),
        b \in OptionalFile(MediaB, {SmallFile})}

\* The archives of earlier runs.
ArchiveTrees ==
    {db14 @@ db15 @@ a @@ b :
        db14 \in OptionalFile(DbPath, {DbFile}),
        db15 \in OptionalFile(<<"Databases", FullDb15>>, {SmallFile}),
        a \in OptionalFile(MediaA, {SmallFile}),
        b \in OptionalFile(MediaB, {SmallFile})}

OperationModes == {"Backup", "Trim", "Sync"}

\* The queries main_internal builds from --order and --limit.
PipelineQueries ==
    {q \in Queries : /\ q.order = "Smaller"
                     /\ q.data_limit \in {<<"Infinite">>, <<"Bytes", 0>>}
                     /\ q.priority = <<"Constant", FALSE>>}

WhatsAppRoot == [exists |-> TRUE, marker |-> FALSE, stray |-> FALSE]

filter_existing(index, list) == SelectSeq(list, LAMBDA p : p \in DOMAIN index)

\* Mutant of filter_missing: the paths the index holds are the ones kept.
filter_missing_present(index, list) ==
    SelectSeq(list, LAMBDA p : p \in DOMAIN index)

filter_missing(index, list) == SelectSeq(list, LAMBDA p : p \notin DOMAIN index)

MainAt(at) == main # None /\ main[1].at = at

PipelineInit ==
    /\ index_type = "Archive"
    /\ action_type \in {"Real", "Dry"}
    /\ root = ArchiveRoot
    /\ source_disk \in WhatsAppTrees
    /\ disk \in ArchiveTrees
    /\ entries = rebuild_index(disk)
    /\ source_entries = rebuild_index(source_disk)
    /\ tmp = None
    /\ pc = "idle"
    /\ call = NoCall
    /\ mirror = None
    /\ clean = None
    /\ \E q \in PipelineQueries : query = Some(q)
    /\ candidates = None
    /\ \E mode \in OperationModes, keep \in 0..MaxKeep :
          main = Some([mode |-> mode, num_dbs_to_keep |-> keep,
                       at |-> "mirror_all", delete_candidates |-> <<>>,
                       restore_candidates |-> <<>>])

\* main_internal goes on after a call that returned Ok.
MainGoesOn(at) ==
    /\ main' = Some([main[1] EXCEPT !.at = at])
    /\ pc' = "idle"
    /\ call' = NoCall
    /\ mirror' = None
    /\ clean' = None
    /\ UNCHANGED <<index_type, action_type, root, entries, disk, tmp,
                   source_entries, source_disk, query, candidates>>

\* archive_index.mirror_all(&wa_index)
MainMirrorAll ==
    /\ MainAt("mirror_all")
    /\ mirror_all

\* Mutant of MainMirrored: the result of mirror_all is not looked at.
MainMirroredAnyResult ==
    /\ pc = "returned" /\ MainAt("mirror_all")
    /\ MainGoesOn("clean_old_dbs")

\* `if let Err(e) = archive_index.mirror_all(..) { return Err(..) }`
MainMirrored ==
    /\ pc = "returned" /\ MainAt("mirror_all")
    /\ mirror[1].result = "Ok"
    /\ MainGoesOn("clean_old_dbs")

\* archive_index.clean_old_dbs(num_dbs_to_keep)
MainCleanOldDbs ==
    /\ MainAt("clean_old_dbs")
    /\ clean_old_dbs(main[1].num_dbs_to_keep)

MainCleaned ==
    /\ pc = "returned" /\ MainAt("clean_old_dbs")
    /\ clean[1].result = "Ok"
    /\ MainGoesOn(IF main[1].mode = "Backup" THEN "done" ELSE "query")

\* The query over deletion_source and wa_index.filter_existing; the calls
\* from here on are made on wa_index.
MainQuery ==
    /\ pc = "idle" /\ MainAt("query")
    /\ LET deletion_source ==
               IF main[1].mode = "Trim" THEN source_entries ELSE entries
       IN  \E order \in SortedOrders(deletion_source, query[1]) :
              LET found == Candidates(deletion_source, query[1], order)
              IN  /\ candidates' = Some(found)
                  /\ main' = Some([main[1] EXCEPT
                                     !.at = "remove_files",
                                     !.delete_candidates =
                                         filter_existing(source_entries, found.delete)])
    /\ index_type' = "Original"
    /\ root' = WhatsAppRoot
    /\ entries' = source_entries
    /\ disk' = source_disk
    /\ source_entries' = entries
    /\ source_disk' = disk
    /\ UNCHANGED <<action_type, tmp, pc, call, mirror, clean, query>>

\* One iteration of remove_files: self.remove_file(file.as_ref())?
MainRemoveFile ==
    /\ MainAt("remove_files")
    /\ main[1].delete_candidates # <<>>
    /\ remove_file(Head(main[1].delete_candidates))

MainRemoved ==
    /\ pc = "returned" /\ MainAt("remove_files")
    /\ call.result = "Ok"
    /\ main' = Some([main[1] EXCEPT !.delete_candidates = Tail(@)])
    /\ pc' = "idle"
    /\ call' = NoCall
    /\ UNCHANGED <<index_type, action_type, root, entries, disk, tmp,
                   source_entries, source_disk, mirror, clean, query, candidates>>

\* remove_files returned Ok; in Sync mode wa_index.filter_missing gives the
\* paths to restore.
MainTrimmed ==
    /\ pc = "idle" /\ MainAt("remove_files")
    /\ main[1].delete_candidates = <<>>
    /\ main' = Some([main[1] EXCEPT
                       !.at = IF main[1].mode = "Sync" THEN "restore" ELSE "done",
                       !.restore_candidates =
                           IF main[1].mode = "Sync"
                           THEN filter_missing(entries, candidates[1].retain)
                           ELSE <<>>])
    /\ UNCHANGED <<index_type, action_type, root, entries, disk, tmp,
                   source_entries, source_disk, pc, call, mirror, clean, query,
                   candidates>>

\* wa_index.mirror_specified(&archive_index, &restore_candidates)
MainRestore ==
    /\ MainAt("restore")
    /\ mirror_specified({main[1].restore_candidates[i] :
                            i \in 1..Len(main[1].restore_candidates)})

MainRestored ==
    /\ pc = "returned" /\ MainAt("restore")
    /\ mirror[1].result = "Ok"
    /\ MainGoesOn("done")

PipelineNext ==
    \/ MainMirrorAll
    \/ MainMirrored
    \/ MainCleanOldDbs
    \/ MainCleaned
    \/ MainQuery
    \/ MainRemoveFile
    \/ MainRemoved
    \/ MainTrimmed
    \/ MainRestore
    \/ MainRestored
    \/ MirrorImport
    \/ MirrorStartMissing
    \/ MirrorDone
    \/ ImportStep
    \/ CleanRemove
    \/ CleanDone
    \/ RemoveFromDisk
    \/ RemoveFromDiskFail
    \/ RemoveEntry

PipelineSpec == PipelineInit /\ [][PipelineNext]_vars

\* ---------------------------------------------------------------- claims

IsImport == call.op \in {"import_file", "import_file_with_metadata"}

\* C1: once mirror_specified has returned Ok in Real mode, every requested
\* path has the source's record in the destination map; and a mirror of the
\* same paths run right after it calls import not once (neither loop has
\* anything to do) and leaves the destination map as it was.
MirrorIdempotent ==
    action_type = "Real" /\ mirror # None =>
       /\ (pc = "returned" /\ mirror[1].result = "Ok" =>
             \A p \in mirror[1].files :
                p \in DOMAIN entries /\ entries[p] = source_entries[p])
       /\ (mirror[1].repeat =>
             /\ mirror[1].imports = 0
             /\ mirror[1].todo = {}
             /\ call = NoCall
             /\ mirror[1].result \in {"", "Ok"}
             /\ entries = mirror[1].before)

\* C1 witness: a repeated mirror has returned Ok after a first pass that
\* imported both a changed and a missing file or two of one kind.
MirrorIdempotentWitness ==
    /\ action_type = "Real" /\ pc = "returned" /\ mirror # None
    /\ mirror[1].result = "Ok" /\ mirror[1].repeat
    /\ mirror[1].first = 2
    /\ mirror[1].files = Paths

\* C2: in Real mode the destination path never holds a partially written
\* file: during an import it holds no file, the file it held before, or a
\* whole copy of the source; and once copy, sync_data or rename has failed
\* and safer_copy has returned, the temporary file is gone and the call
\* returns that error.
NoPartialFileAtDestination ==
    /\ \A p \in DOMAIN disk : IsWhole(disk[p])
    /\ (IsImport /\ action_type = "Real" =>
          \/ FileAt(disk, call.rel) \in {None, call.prior}
          \/ /\ call.source \in DOMAIN source_disk
             /\ IsWhole(disk[call.rel])
             /\ disk[call.rel].data = source_disk[call.source].data)
    /\ (IsImport /\ call.step \in {"copy", "sync_data", "rename"}
          /\ pc \in {"failed", "returned"} => tmp = None)
    /\ (IsImport /\ call.step \in {"copy", "sync_data", "rename"}
          /\ pc = "returned" => call.result \in {"Cp", "Io", "Mv"})

\* C2 witness: the copy into the temporary file failed part-way over an
\* existing destination file, and the call has returned.
NoPartialFileWitness ==
    /\ action_type = "Real" /\ pc = "returned" /\ IsImport
    /\ call.step = "copy" /\ call.result = "Cp"
    /\ call.source \in DOMAIN source_disk
    /\ call.prior # None

\* C3: after a Real-mode import that failed in the transfer before the rename
\* (the copy or the sync), the destination path is not on disk and the
\* relative path is not a key of the map.
TransferFailureLeavesNothing ==
    pc = "returned" /\ IsImport /\ action_type = "Real"
       /\ call.step \in {"copy", "sync_data"} =>
          call.rel \notin DOMAIN disk /\ call.rel \notin DOMAIN entries

\* C4: after import has returned FileMismatch, no file is at the destination
\* path and the map has no entry for the relative path.
MismatchLeavesNothing ==
    pc = "returned" /\ IsImport /\ call.result = "FileMismatch" =>
       call.rel \notin DOMAIN disk /\ call.rel \notin DOMAIN entries

\* C5: between the public calls of a Real-mode index, whether they succeeded
\* or failed, the map is what a rebuild from disk would give: the keys are the
\* regular files under the root and each record equals the re-read one.
IndexMatchesDisk ==
    action_type = "Real" /\ pc \in {"idle", "returned"} =>
       entries = rebuild_index(disk)

\* C6: whenever import_file or import_file_with_metadata has returned Ok, in
\* Real or Dry mode, the map has a record under relative_path.
ImportOkInsertsRecord ==
    pc = "returned" /\ IsImport /\ call.result = "Ok" =>
       call.rel \in DOMAIN entries

Range(seq) == {seq[i] : i \in 1..Len(seq)}

Called == query # None /\ candidates # None

\* The quota example: A of 100 bytes, B of 200 and C of 50, all in one
\* priority class, scored A < B < C (order Newer, A the newest), limit 180.
QuotaExample ==
    /\ Called
    /\ media_files(entries) = QueryPaths
    /\ entries[MediaA].size = 100 /\ entries[MediaA].estimated_creation_date = 2
    /\ entries[MediaB].size = 200 /\ entries[MediaB].estimated_creation_date = 1
    /\ entries[MediaC].size = 50 /\ entries[MediaC].estimated_creation_date = 0
    /\ query[1].order = "Newer"
    /\ query[1].priority = <<"Constant", FALSE>>
    /\ query[1].data_limit = <<"Bytes", 180>>

RetainedWithinLimit ==
    Called /\ query[1].data_limit[1] = "Bytes" =>
       SumSizes(entries, Range(candidates[1].retain)) <= query[1].data_limit[2]

\* C9: a media file that matches the priority predicate is in the delete list
\* only if every media file that does not match is in it too.
PriorityOverridesScore ==
    Called =>
       \A d \in Range(candidates[1].delete) :
          matches(query[1].priority, entries[d], query[1].now) =>
             \A m \in media_files(entries) :
                ~matches(query[1].priority, entries[m], query[1].now) =>
                   m \in Range(candidates[1].delete)

\* C9 witness: a matching file is retained while a file that does not match
\* is deleted, although the score alone puts the matching file first in the
\* deletion order.
PriorityOverridesScoreWitness ==
    /\ Called
    /\ \E r \in Range(candidates[1].retain), d \in Range(candidates[1].delete) :
          /\ matches(query[1].priority, entries[r], query[1].now)
          /\ ~matches(query[1].priority, entries[d], query[1].now)
          /\ evaluate(query[1].order, entries[r], query[1].now)
                < evaluate(query[1].order, entries[d], query[1].now)

\* The limit asks for nothing to be removed.
LimitCoversUsage ==
    \/ query[1].data_limit[1] = "Infinite"
    \/ /\ query[1].data_limit[1] = "Bytes"
       /\ query[1].data_limit[2] >= media_size_bytes(entries)

\* C10: with the limit Infinite, or a byte limit that is at least the current
\* total size of the media files, the delete list is empty and the retain
\* list holds every media file.
NothingDeletedWithinLimit ==
    Called /\ LimitCoversUsage =>
       /\ candidates[1].delete = <<>>
       /\ Range(candidates[1].retain) = media_files(entries)
       /\ Len(candidates[1].retain) = Cardinality(media_files(entries))

\* C10 witness: three media files whose total is exactly the byte limit.
NothingDeletedWitness ==
    /\ Called
    /\ query[1].data_limit = <<"Bytes", media_size_bytes(entries)>>
    /\ media_files(entries) = QueryPaths

\* C11: with a limit of L bytes the delete list is the shortest prefix of the
\* order whose removal brings the media total to L or below: what is left
\* after the deleted files sums to at most L, and with the last deleted file
\* put back it sums to more than L.
TruncationPoint ==
    Called /\ query[1].data_limit[1] = "Bytes" =>
       LET delete == candidates[1].delete
           left == media_size_bytes(entries) - SumSizes(entries, Range(delete))
       IN  /\ left <= query[1].data_limit[2]
           /\ (delete # <<>> =>
                 left + entries[delete[Len(delete)]].size > query[1].data_limit[2])

\* C12: remove_file on a path that is not a key returns FileMissing and
\* changes neither map nor disk; on a key, in Real mode, the file is deleted
\* while the entry is still in the map, a failing delete returns the error
\* with map and disk as they were, and when Ok is returned the path is absent
\* from the map and, in Real mode, from disk.
RemoveFileContract ==
    [][/\ (pc = "idle" /\ call'.op = "remove_file" /\ pc' = "returned" =>
             /\ call'.result = "FileMissing"
             /\ call'.rel \notin DOMAIN entries
             /\ UNCHANGED <<entries, disk>>)
       /\ (pc = "idle" /\ pc' = "remove" =>
             /\ call'.rel \in DOMAIN entries
             /\ UNCHANGED <<entries, disk>>)
       /\ (pc = "remove" /\ pc' = "remove_entry" =>
             /\ action_type = "Real"
             /\ call.rel \in DOMAIN disk /\ call.rel \notin DOMAIN disk'
             /\ call.rel \in DOMAIN entries'
             /\ UNCHANGED entries)
       /\ (pc = "remove" /\ pc' = "returned" /\ call'.result # "Ok" =>
             /\ action_type = "Real"
             /\ call.rel \in DOMAIN entries'
             /\ UNCHANGED <<entries, disk>>)
       /\ (call'.op = "remove_file" /\ pc' = "returned" /\ call'.result = "Ok" =>
             /\ entries' = Remove(entries, call.rel)
             /\ call.rel \notin DOMAIN entries'
             /\ (action_type = "Real" => call.rel \notin DOMAIN disk'))
      ]_vars

\* C12 witness: in Real mode the deletion of an indexed file that is on disk
\* has failed, and the call has returned the error.
RemoveFileWitness ==
    /\ action_type = "Real" /\ pc = "returned"
    /\ call.op = "remove_file" /\ call.result = "Io"
    /\ call.prior # None
    /\ call.rel \in DOMAIN entries

\* C13: when a requested path is not in the source index, mirror_specified
\* returns IndexEntryMissing without a single import and leaves the
\* destination map and the destination disk as they were.
MissingEntryAborts ==
    [][mirror' # None =>
          /\ (mirror'[1].result = "IndexEntryMissing" <=>
                ~(mirror'[1].files \subseteq DOMAIN source_entries))
          /\ (~(mirror'[1].files \subseteq DOMAIN source_entries) =>
                /\ pc' = "returned"
                /\ mirror'[1].imports = 0
                /\ call' = NoCall
                /\ UNCHANGED <<entries, disk, tmp>>)
      ]_vars

\* C13 witness: a Real-mode mirror has returned IndexEntryMissing although
\* one of the requested paths is in the source index and not in the
\* destination.
MissingEntryWitness ==
    /\ action_type = "Real" /\ pc = "returned" /\ mirror # None
    /\ mirror[1].result = "IndexEntryMissing"
    /\ \E p \in mirror[1].files :
          p \in DOMAIN source_entries /\ p \notin DOMAIN entries

\* The changed and the missing paths of the running mirror, as the call found
\* them.
ChangedAtStart ==
    ChangedPaths(mirror[1].before, source_entries, mirror[1].files)

MissingAtStart ==
    MissingPaths(mirror[1].before, source_entries, mirror[1].files)

\* C14: in a mirror pass, while the first loop runs only changed files are
\* imported and no missing file has been added to the map or to the disk;
\* once the second loop runs, every changed file has the source's record and
\* only missing files are imported.  A pass that failed in the first loop
\* has therefore imported no missing file.
ChangedBeforeMissing ==
    mirror # None /\ mirror[1].phase # "validate" =>
       /\ (mirror[1].phase = "changed" =>
             /\ IsImport => call.rel \in ChangedAtStart
             /\ DOMAIN entries = DOMAIN mirror[1].before
             /\ \A p \in MissingAtStart :
                   FileAt(disk, p) = FileAt(mirror[1].disk_before, p))
       /\ (mirror[1].phase = "missing" =>
             /\ IsImport => call.rel \in MissingAtStart
             /\ \A p \in ChangedAtStart : entries[p] = source_entries[p])

\* C14 witness: a pass that found both a changed and a missing file has
\* failed while importing the changed one.
ChangedBeforeMissingWitness ==
    /\ pc = "returned" /\ mirror # None
    /\ mirror[1].phase = "changed"
    /\ mirror[1].result \notin {"", "Ok"}
    /\ MissingAtStart # {}
    /\ IsImport /\ call.rel \in ChangedAtStart

\* C15: when mirror_specified or mirror_all has returned Ok, every path that
\* was in the destination map before the call is still in it, and every
\* destination path that was not requested has the record and the file it
\* had before the call.
MirrorNeverDeletes ==
    pc = "returned" /\ mirror # None /\ mirror[1].result = "Ok" =>
       /\ DOMAIN mirror[1].before \subseteq DOMAIN entries
       /\ \A p \in Paths \ mirror[1].files :
             /\ FileAt(entries, p) = FileAt(mirror[1].before, p)
             /\ FileAt(disk, p) = FileAt(mirror[1].disk_before, p)

\* C15 witness: a Real-mode mirror that imported a file has returned Ok while
\* the destination holds a path that was not requested.
MirrorNeverDeletesWitness ==
    /\ action_type = "Real" /\ pc = "returned" /\ mirror # None
    /\ mirror[1].result = "Ok" /\ mirror[1].imports > 0
    /\ \E p \in DOMAIN mirror[1].before : p \notin mirror[1].files

\* A construction has just returned.
Constructed(it) ==
    pc = "start" /\ pc' = "returned" /\ call'.op = "new" /\ index_type = it

\* C17: FileIndex::new for an Archive, in either action mode, over a folder
\* that exists without the marker and is not empty does not succeed (it
\* returns NewArchiveFolderNotEmpty, or the error of an I/O operation that
\* failed) and writes nothing; over an existing empty folder
\* without marker it fails only on an I/O error and, when it succeeds in Real
\* mode, has written the marker; over a folder with the marker a successful
\* construction indexes the files there.
ArchiveConstruction ==
    [][Constructed("Archive") =>
          /\ (root.exists /\ ~root.marker /\ ~num_entries_is_zero(root, disk) =>
                /\ call'.result \in {"NewArchiveFolderNotEmpty", "Io"}
                /\ UNCHANGED <<root, disk>>)
          /\ (root.exists /\ ~root.marker /\ num_entries_is_zero(root, disk) =>
                /\ call'.result \in {"Ok", "Io"}
                /\ (call'.result = "Ok" /\ action_type = "Real" => root'.marker))
          /\ (root.marker =>
                /\ call'.result \in {"Ok", "Io"}
                /\ (call'.result = "Ok" => entries' = rebuild_index(disk)))
      ]_vars

\* C18: FileIndex::new for an Original returns Ok only over a root that holds
\* Databases/msgstore.db.crypt14 or Databases/msgstore.db.crypt15 and no
\* marker file; over any other root, and so over every root an archive was
\* initialised in, it returns NotWhatsAppFolder; and whatever it returns it
\* leaves the disk as it was.
OriginalConstruction ==
    [][Constructed("Original") =>
          LET db == \/ <<"Databases", "msgstore.db.crypt14">> \in DOMAIN disk
                    \/ <<"Databases", "msgstore.db.crypt15">> \in DOMAIN disk
          IN  /\ (call'.result = "Ok" => db /\ ~root.marker)
              /\ (~(db /\ ~root.marker) => call'.result = "NotWhatsAppFolder")
              /\ UNCHANGED <<root, disk>>
      ]_vars

\* C18 witness: a root that an Archive construction wrote the marker into and
\* that now holds a database is opened as an Original and refused.
OriginalConstructionWitness ==
    /\ pc = "returned" /\ call.op = "new" /\ index_type = "Original"
    /\ call.result = "NotWhatsAppFolder"
    /\ root.marker
    /\ <<"Databases", "msgstore.db.crypt14">> \in DOMAIN disk

\* clean_old_dbs has returned Ok.
Cleaned == pc = "returned" /\ clean # None /\ clean[1].result = "Ok"

\* The paths the call removed from the map.
Cleared == DOMAIN clean[1].before \ DOMAIN entries

\* The date a dated snapshot name bears, in days from 2023-06-13.
SnapshotDate(name) ==
    CASE name = Dated13 -> 0
      [] name = DatedIncrement13 -> 0
      [] name = Dated14 -> 1
      [] name = Dated15 -> 2

\* The dated snapshots the index held when the call began.
SnapshotsBefore ==
    {p \in DOMAIN clean[1].before :
        starts_with_Databases(p) /\ file_name(p) \in DatedNames}

\* C19: when clean_old_dbs(N) has returned Ok over dated snapshots of exactly
\* N+1 distinct dates, it has removed the snapshots of the oldest date, full
\* and incremental, and no other dated snapshot; over N or fewer distinct
\* dates it has removed no dated snapshot.
PrunesOldestSnapshot ==
    Cleaned =>
       LET dates == {SnapshotDate(file_name(p)) : p \in SnapshotsBefore}
           oldest == {p \in SnapshotsBefore :
                         \A q \in SnapshotsBefore :
                            SnapshotDate(file_name(p)) <= SnapshotDate(file_name(q))}
       IN  /\ (Cardinality(dates) = clean[1].keep + 1 =>
                 Cleared \cap SnapshotsBefore = oldest)
           /\ (Cardinality(dates) <= clean[1].keep =>
                 Cleared \cap SnapshotsBefore = {})

\* The current-backup files the index held when the call began, and the full
\* backups among them.
CurrentBefore ==
    {p \in DOMAIN clean[1].before :
        starts_with_Databases(p) /\ file_name(p) \in CurrentNames}

FullBefore == {p \in CurrentBefore : file_name(p) \in {FullDb14, FullDb15}}

\* The extension of a current-backup name.
ExtensionOf(name) == IF name = FullDb15 THEN "crypt15" ELSE "crypt14"

\* C20: when clean_old_dbs has returned Ok, there is a full backup cur of
\* maximum mtime such that the removed paths are exactly the current-backup
\* files whose extension differs from cur's or that are incremental with
\* mtime strictly older than cur's; cur is still indexed, every path that
\* stayed has its record, and in Real mode the disk holds what the map holds.
ConsolidatesCurrentBackup ==
    Cleaned =>
       LET before == clean[1].before
       IN  /\ \E cur \in FullBefore :
                 /\ \A q \in FullBefore :
                       before[q].modification_time <= before[cur].modification_time
                 /\ Cleared =
                       {p \in CurrentBefore :
                           \/ ExtensionOf(file_name(p)) # ExtensionOf(file_name(cur))
                           \/ /\ file_name(p) = IncrementDb14
                              /\ before[p].modification_time
                                    < before[cur].modification_time}
                 /\ cur \in DOMAIN entries
           /\ \A p \in DOMAIN entries : entries[p] = before[p]
           /\ (action_type = "Real" => DOMAIN disk = DOMAIN entries)

\* C20 witness: in Real mode the call has removed a full backup of another
\* extension and an increment older than the current full backup, and has
\* kept a dated snapshot.
ConsolidatesCurrentBackupWitness ==
    /\ Cleaned /\ action_type = "Real"
    /\ Cleared = {<<"Databases", FullDb15>>, <<"Databases", IncrementDb14>>}
    /\ <<"Databases", FullDb14>> \in DOMAIN entries
    /\ <<"Databases", Dated13>> \in DOMAIN entries

\* C16: no step of a Dry index (construction of an Original or an Archive,
\* over a root that exists or not; import, removal, mirror, clean_old_dbs;
\* succeeding or failing) changes the root directory, the marker, the files
\* of the destination or of the source, or creates a temporary file; and
\* the map is updated all the same: the construction of an Archive that
\* finds no marker returns an empty index and any other one the index of the
\* tree, an import that returns Ok has recorded the
\* source file's record under the relative path, and a removal that returns
\* Ok has dropped the key.
DryTouchesNoDisk ==
    [][action_type = "Dry" =>
          /\ UNCHANGED <<root, disk, tmp, source_disk>>
          /\ (pc = "start" /\ call'.result = "Ok" =>
                entries' = IF index_type = "Archive" /\ ~root.marker
                           THEN <<>> ELSE rebuild_index(disk))
          /\ (pc = "do_copy" /\ call'.result = "Ok" =>
                /\ call.source \in DOMAIN source_disk
                /\ entries' = Insert(entries, call.rel,
                                     FileInfoNew(call.source, source_disk[call.source])))
          /\ (pc = "remove" /\ call'.result = "Ok" =>
                entries' = Remove(entries, call.rel))
      ]_vars

\* C16 witness: a Dry index has removed a path that is still on disk.
DryTouchesNoDiskWitness ==
    /\ action_type = "Dry" /\ pc = "returned"
    /\ call.op = "remove_file" /\ call.result = "Ok"
    /\ call.rel \in DOMAIN disk /\ call.rel \notin DOMAIN entries

\* The visible files directly under Backups that the index held when
\* clean_old_backups began, and those of them that share a prefix with p.
VisibleBackupsBefore == backup_files(clean[1].before)

SamePrefixBefore(p) ==
    {q \in VisibleBackupsBefore :
        determine_filename_prefix(q) = determine_filename_prefix(p)}

\* C21: when clean_old_backups has returned Ok, of every group of visible
\* files directly under Backups that share a prefix exactly one file is
\* left, and it has the greatest modification time of its group; every
\* other path (hidden, nested deeper, outside Backups) and every file left
\* has its record, and in Real mode its file.
KeepsOneBackupPerPrefix ==
    pc = "returned" /\ clean # None /\ clean[1].op = "clean_old_backups"
       /\ clean[1].result = "Ok" =>
       LET before == clean[1].before
       IN  /\ \A p \in VisibleBackupsBefore :
                 /\ Cardinality(SamePrefixBefore(p) \cap DOMAIN entries) = 1
                 /\ \A r \in SamePrefixBefore(p) \cap DOMAIN entries :
                       \A q \in SamePrefixBefore(p) :
                          before[q].modification_time <= before[r].modification_time
           /\ DOMAIN before \ VisibleBackupsBefore \subseteq DOMAIN entries
           /\ \A p \in DOMAIN entries : entries[p] = before[p]
           /\ (action_type = "Real" => DOMAIN disk = DOMAIN entries)

\* C22: when a Real-mode import was terminated at any of its steps and a new
\* run has built the index over the destination tree, every key of the
\* index names a file that holds all the bytes of its content.
NoHalfWrittenKeyAfterCrash ==
    action_type = "Real" /\ pc = "returned" /\ call.op = "new"
       /\ call.result = "Ok" =>
       \A p \in DOMAIN entries : p \in DOMAIN disk /\ IsWhole(disk[p])

\* Path::components resolved from the root: the path escapes when a ".."
\* is met at depth 0.
RECURSIVE EscapesFrom(_, _)
EscapesFrom(path, depth) ==
    IF path = <<>> THEN FALSE
    ELSE IF Head(path) = ".." THEN depth = 0 \/ EscapesFrom(Tail(path), depth - 1)
    ELSE EscapesFrom(Tail(path), depth + 1)

\* C23: after any sequence of import and remove calls with arbitrary
\* relative_path arguments, every key of the map is a relative path that
\* does not resolve outside the index root: never absolute, never escaping
\* through ".." components.
KeysStayBelowRoot ==
    \A path \in DOMAIN entries : is_relative(path) /\ ~EscapesFrom(path, 0)

\* The index was rebuilt from the tree by the construction that returned.
Rebuilt ==
    /\ pc = "returned" /\ call.op = "new" /\ call.result = "Ok"
    /\ ~(index_type = "Archive" /\ action_type = "Dry" /\ ~root.marker)

\* C24: after a successful build the keys of the map are exactly the
\* root-relative paths of all regular files at any depth under the root,
\* the root-level marker excepted; entries that are neither files nor
\* directories are skipped and do not make the build fail.
KeysAreRegularFiles ==
    Rebuilt => DOMAIN entries = {p \in DOMAIN disk : is_file(disk[p])}

\* The media files of the index, by the media rule: first path component
\* `Media`, file name not `.nomedia`.
MediaPathsOfIndex ==
    {p \in DOMAIN entries : Head(p) = "Media" /\ p[Len(p)] # ".nomedia"}

\* C25: the delete and retain lists returned by get_delete_retain_candidates
\* are disjoint, hold no duplicates, and together are exactly the media
\* files of the index; no other path appears in either list, and the index
\* is as it was before the call.
CandidatesPartitionMedia ==
    candidates # None =>
       LET to_delete == candidates[1].delete
           to_retain == candidates[1].retain
       IN  /\ Range(to_delete) \cap Range(to_retain) = {}
           /\ Cardinality(Range(to_delete)) = Len(to_delete)
           /\ Cardinality(Range(to_retain)) = Len(to_retain)
           /\ Range(to_delete) \cup Range(to_retain) = MediaPathsOfIndex
           /\ entries = rebuild_index(disk)

CandidatesPartitionMediaWitness ==
    /\ candidates # None
    /\ Len(candidates[1].delete) >= 1
    /\ Len(candidates[1].retain) >= 2
    /\ \E p \in DOMAIN entries : p \notin MediaPathsOfIndex

\* C26: in a Trim or Sync run every file removed from the WhatsApp folder
\* is, when remove_file is about to remove it, present in the archive index
\* with a record equal to its own; and while the run has not got past
\* mirror_all (an error of the mirror ends it there) the WhatsApp folder and
\* its index are not touched.
NoDataLossInPipeline ==
    [][/\ (main # None /\ index_type' = "Original" /\ pc' = "remove") =>
             /\ call'.rel \in DOMAIN source_entries'
             /\ source_entries'[call'.rel] = entries'[call'.rel]
       /\ MainAt("mirror_all") => UNCHANGED <<source_disk, source_entries>>]_vars

NoDataLossInPipelineWitness ==
    /\ main # None /\ index_type = "Original" /\ action_type = "Real"
    /\ pc = "remove_entry"
    /\ call.rel \notin DOMAIN disk

CleanFindsCurrentBackup ==
    (MainAt("clean_old_dbs") /\ pc = "returned") =>
       /\ clean[1].result # "panic"
       /\ clean[1].result = "Ok" =>
             \E p \in db_infos(entries) : ~DbInfoOf(entries, p).is_incremental

\* The record a Dry index holds under relative_path once the call has
\* returned: FileInfo::new(source).  A Dry import succeeds whenever the
\* source can be read.
DryRecord == FileInfoNew(call.source, source_disk[call.source])

\* C28: the dry run predicts the real run.  From the same trees a call that
\* succeeds leaves the same map on a Dry and on a Real index, and without an
\* I/O fault it succeeds on one exactly when it succeeds on the other: an
\* import that has returned Ok has left the record the dry run records, and
\* no import of a readable source ends in an error that is not an I/O fault.
DryPredictsReal ==
    (pc = "returned" /\ IsImport /\ call.source \in DOMAIN source_disk) =>
       /\ call.result = "Ok" =>
             call.rel \in DOMAIN entries /\ entries[call.rel] = DryRecord
       /\ call.result # "FileMismatch"

====
